---- MODULE Spec2Model ----
(***************************************************************************)
(* Model of the wide-string subsystem of ergonomic-windows                 *)
(* (src/src/string.rs): the UTF-8 <-> UTF-16 codec and from_wide_ptr, the  *)
(* WideStringBuilder, the small-string optimised WideString container and  *)
(* the WideStringPool buffer cache with its handles; and of the            *)
(* command-line quoting of src/src/process.rs (quote_arg).                 *)
(*                                                                         *)
(* A Rust &str is a sequence of Unicode scalar values (no surrogates).     *)
(* A &[u16] is a sequence of code units 0..65535.  TLA+ sequences are      *)
(* 1-based; an index i of the Rust code is i+1 here.                       *)
(* A Vec<u16> is a record [id, cap, data]: the allocation it owns (0 when  *)
(* the allocation is not tracked), its capacity and its elements.          *)
(***************************************************************************)
EXTENDS Integers, Sequences, FiniteSets

VARIABLES
    text,       \* codec: the &str last given to to_wide
    wide,       \* codec: the Vec<u16> / slice under conversion
    decoded,    \* codec: the Result<String> of the last from_wide
    step,       \* codec: the last codec call
    arg,        \* WideString: the constructor argument drawn at start
    ws,         \* WideString: the constructed value
    out,        \* WideString / handle: the last accessor's return value
    live,       \* pool: TRUE once a WideStringPool exists
    pool,       \* pool: WideStringPool.pool, a sequence of Vec<u16>
    max_size,   \* pool: WideStringPool.max_size
    max_capacity, \* pool: WideStringPool.max_capacity
    handles,    \* pool: the PooledWideString values checked out
    last,       \* pool: the last call on the pool or on a handle, see Call
    prev,       \* pool: the name of the call before last
    taken,      \* handles: allocations moved out by into_vec / into_wide_string
    builder,    \* builder: WideStringBuilder.buffer
    pushed,     \* builder: the segments pushed since creation or the last clear
    produced,   \* builder: the last call on the builder and what it returned
    cmd_arg,    \* quoting: the argument given to quote_arg
    quoted,     \* quoting: what quote_arg returned
    ptr,        \* from_wide_ptr: the pointer argument, an index of wide or 0
    reads       \* from_wide_ptr: the indices of wide the call read

codecVars == <<text, wide, decoded, step>>
wideVars  == <<arg, ws, out>>
poolVars  == <<live, pool, max_size, max_capacity, handles, last, prev>>
builderVars == <<builder, pushed, produced>>
quoteVars == <<cmd_arg, quoted>>
ptrVars   == <<ptr, reads>>
extVars   == <<taken, builderVars, quoteVars, ptrVars>>
vars      == <<text, wide, decoded, step, arg, ws, out,
               live, pool, max_size, max_capacity, handles, last, prev,
               taken, builder, pushed, produced, cmd_arg, quoted, ptr, reads>>

----------------------------------------------------------------------------
(* Bounds of the model *)

\* longest &str / &[u16] input, in scalars / units
MaxLen == 3

\* Unicode scalars the inputs are drawn from: NUL, 'A', the euro sign,
\* U+FFFF, U+10000, U+1F389 (the party popper of the tests), U+10FFFF
Chars == {0, 65, 8364, 65535, 65536, 127881, 1114111}

\* code units raw buffers are drawn from: 0, 'A', and the units on both
\* sides of each end of the surrogate ranges D800..DBFF and DC00..DFFF
Units == {0, 65, 55295, 55296, 56319, 56320, 57343, 57344}

RECURSIVE SeqsUpTo(_, _)
SeqsUpTo(S, n) ==
    IF n = 0 THEN {<<>>}
    ELSE LET shorter == SeqsUpTo(S, n - 1)
         IN  shorter \cup {Append(q, x) : q \in shorter, x \in S}

Texts      == SeqsUpTo(Chars, MaxLen)
WideInputs == SeqsUpTo(Units, MaxLen)

----------------------------------------------------------------------------
(* Rust standard library pieces the code calls *)

IsHighSurrogate(u) == u >= 55296 /\ u <= 56319
IsLowSurrogate(u)  == u >= 56320 /\ u <= 57343

\* char::len_utf16
LenUtf16(c) == IF c < 65536 THEN 1 ELSE 2

\* char::len_utf8
LenUtf8(c) == IF c < 128 THEN 1 ELSE IF c < 2048 THEN 2 ELSE IF c < 65536 THEN 3 ELSE 4

\* char::encode_utf16, with a low half that is not offset by 0x10000 first
EncodeCharNoOffset(c) ==
    IF c < 65536 THEN <<c>>
    ELSE <<55296 + ((c \div 1024) % 1024), 56320 + (c % 1024)>>

\* char::encode_utf16
EncodeChar(c) ==
    IF c < 65536 THEN <<c>>
    ELSE <<55296 + ((c - 65536) \div 1024), 56320 + ((c - 65536) % 1024)>>

\* str::encode_utf16, collected
RECURSIVE EncodeUtf16(_)
EncodeUtf16(s) ==
    IF s = <<>> THEN <<>> ELSE EncodeChar(Head(s)) \o EncodeUtf16(Tail(s))

\* s.chars().map(|c| c.len_utf16()).sum()
RECURSIVE Utf16Len(_)
Utf16Len(s) == IF s = <<>> THEN 0 ELSE LenUtf16(Head(s)) + Utf16Len(Tail(s))

\* str::len, the length in UTF-8 bytes
RECURSIVE Utf8Len(_)
Utf8Len(s) == IF s = <<>> THEN 0 ELSE LenUtf8(Head(s)) + Utf8Len(Tail(s))

Ok(t)  == [ok |-> TRUE,  val |-> t,    err |-> "none"]
Err(e) == [ok |-> FALSE, val |-> <<>>, err |-> e]
None   == [ok |-> FALSE, val |-> <<>>, err |-> "not called"]

\* String::from_utf16 that lets a low surrogate stand alone
RECURSIVE FromUtf16LoneLow(_)
FromUtf16LoneLow(u) ==
    IF u = <<>> THEN Ok(<<>>)
    ELSE IF IsHighSurrogate(u[1])
    THEN IF Len(u) >= 2 /\ IsLowSurrogate(u[2])
         THEN LET rest == FromUtf16LoneLow(SubSeq(u, 3, Len(u)))
              IN  IF rest.ok
                  THEN Ok(<<65536 + (u[1] - 55296) * 1024 + (u[2] - 56320)>> \o rest.val)
                  ELSE rest
         ELSE Err("string_conversion")
    ELSE LET rest == FromUtf16LoneLow(Tail(u))
         IN  IF rest.ok THEN Ok(<<u[1]>> \o rest.val) ELSE rest

\* String::from_utf16: decodes left to right; a unit outside D800..DFFF is a
\* scalar, a high surrogate must be followed by a low one, anything else fails
RECURSIVE FromUtf16(_)
FromUtf16(u) ==
    IF u = <<>> THEN Ok(<<>>)
    ELSE IF IsLowSurrogate(u[1]) THEN Err("string_conversion")
    ELSE IF IsHighSurrogate(u[1])
    THEN IF Len(u) >= 2 /\ IsLowSurrogate(u[2])
         THEN LET rest == FromUtf16(SubSeq(u, 3, Len(u)))
              IN  IF rest.ok
                  THEN Ok(<<65536 + (u[1] - 55296) * 1024 + (u[2] - 56320)>> \o rest.val)
                  ELSE rest
         ELSE Err("string_conversion")
    ELSE LET rest == FromUtf16(Tail(u))
         IN  IF rest.ok THEN Ok(<<u[1]>> \o rest.val) ELSE rest

\* Vec::with_capacity(n), owning allocation id.  The library promises a
\* capacity of at least n; for u16 elements it allocates exactly n
VecWithCapacity(id, n) == [id |-> id, cap |-> n, data |-> <<>>]

\* capacity after the length becomes len (amortised doubling, minimum 4)
GrowCap(cap, len) ==
    IF len <= cap THEN cap
    ELSE LET dbl == IF 2 * cap > len THEN 2 * cap ELSE len
         IN  IF dbl < 4 THEN 4 ELSE dbl

\* Vec::extend(units)
VecExtend(v, units) ==
    [v EXCEPT !.data = @ \o units, !.cap = GrowCap(@, Len(v.data) + Len(units))]

\* Vec::push(x)
VecPush(v, x) == VecExtend(v, <<x>>)

\* a clear that leaves the elements in place
VecKeep(v) == v

\* Vec::clear: the length becomes 0, the capacity is kept
VecClear(v) == [v EXCEPT !.data = <<>>]

----------------------------------------------------------------------------
(* Codec: to_wide, from_wide *)

\* to_wide without the terminator
ToWideNoTerminator(s) ==
    VecExtend(VecWithCapacity(0, Utf8Len(s) + 1), EncodeUtf16(s))

to_wide(s) ==
    LET result == VecWithCapacity(0, Utf8Len(s) + 1)
    IN  VecPush(VecExtend(result, EncodeUtf16(s)), 0)

\* the position of the last zero of the slice instead of the first
RECURSIVE NulPositionLast(_)
NulPositionLast(w) ==
    IF w = <<>> THEN 0
    ELSE IF w[Len(w)] = 0 /\ (\E i \in 1..Len(w) : w[i] = 0) THEN Len(w) - 1
    ELSE IF \E i \in 1..Len(w) : w[i] = 0 THEN NulPositionLast(SubSeq(w, 1, Len(w) - 1))
    ELSE Len(w)

\* wide.iter().position(|&c| c == 0).unwrap_or(wide.len()), as a length
RECURSIVE NulPosition(_)
NulPosition(w) ==
    IF w = <<>> \/ Head(w) = 0 THEN 0 ELSE 1 + NulPosition(Tail(w))

\* from_wide that decodes the whole slice, terminator included
FromWideNoScan(w) == FromUtf16(w)

from_wide(w) ==
    LET len == NulPosition(w)
    IN  FromUtf16(SubSeq(w, 1, len))

----------------------------------------------------------------------------
(* Values of the variables of a component that is not running *)

NoVec  == [id |-> 0, cap |-> 0, data |-> <<>>]
NoArg  == [kind |-> "none", val |-> <<>>, n |-> 0]
NoWs   == [tag |-> "None", buf |-> <<>>, len |-> 0, vec |-> NoVec]
NoOut  == [op |-> "none", val |-> 0]
NoCall == [op |-> "none", arg |-> <<>>, id |-> 0, cap |-> 0, allocated |-> FALSE]

CodecIdle == text = <<>> /\ wide = <<>> /\ decoded = None /\ step = "idle"
WideIdle  == arg = NoArg /\ ws = NoWs /\ out = NoOut
PoolIdle  == /\ live = FALSE /\ pool = <<>> /\ max_size = 0 /\ max_capacity = 0
             /\ handles = {} /\ last = NoCall /\ prev = "none"
NoBuild   == [op |-> "none", vec |-> NoVec, cap |-> 0, len |-> 0]
NoQuoted  == [owned |-> FALSE, val |-> <<>>, done |-> FALSE]
BuilderIdle == builder = NoVec /\ pushed = <<>> /\ produced = NoBuild
QuoteIdle == cmd_arg = <<>> /\ quoted = NoQuoted
PtrIdle   == ptr = 0 /\ reads = {}
ExtIdle   == taken = {} /\ BuilderIdle /\ QuoteIdle /\ PtrIdle

----------------------------------------------------------------------------
(* Codec calls.  The functions keep no state, so one run makes one chain   *)
(* of calls on one input: to_wide(s) then from_wide of its result, or      *)
(* from_wide of an arbitrary slice.                                        *)

ToWide(s) ==
    /\ step = "idle"
    /\ text' = s
    /\ wide' = to_wide(s).data
    /\ decoded' = None
    /\ step' = "to_wide"
    /\ UNCHANGED <<wideVars, poolVars, extVars>>

\* from_wide(&wide) on the buffer to_wide returned
FromWideBack ==
    /\ step = "to_wide"
    /\ decoded' = from_wide(wide)
    /\ step' = "roundtrip"
    /\ UNCHANGED <<text, wide, wideVars, poolVars, extVars>>

\* from_wide(&w) on an arbitrary slice
FromWideRaw(w) ==
    /\ step = "idle"
    /\ text' = <<>>
    /\ wide' = w
    /\ decoded' = from_wide(w)
    /\ step' = "from_wide"
    /\ UNCHANGED <<wideVars, poolVars, extVars>>

InitCodec == CodecIdle /\ WideIdle /\ PoolIdle /\ ExtIdle

NextCodec ==
    \/ \E s \in Texts : ToWide(s)
    \/ FromWideBack
    \/ \E w \in WideInputs : FromWideRaw(w)

SpecCodec == InitCodec /\ [][NextCodec]_vars

----------------------------------------------------------------------------
(* Properties of the codec *)

HasNul(s) == \E i \in 1..Len(s) : s[i] = 0

\* the first index at which s holds U+0000 (s has one)
FirstNul(s) == CHOOSE k \in 1..Len(s) : s[k] = 0 /\ \A j \in 1..(k - 1) : s[j] # 0

\* C1: for every text s without U+0000, from_wide(to_wide(s)) is Ok(s)
C1_RoundTrip ==
    (step = "roundtrip" /\ ~HasNul(text)) => decoded = Ok(text)

C1_Witness ==
    /\ step = "roundtrip" /\ ~HasNul(text) /\ decoded = Ok(text)
    /\ Len(text) = 3 /\ text[2] > 65535

\* C2: for a text s whose first U+0000 is at position k, from_wide(to_wide(s))
\* is Ok of the k-1 scalars before it, never an error
C2_TruncatesAtNul ==
    (step = "roundtrip" /\ HasNul(text)) =>
        decoded = Ok(SubSeq(text, 1, FirstNul(text) - 1))

C2_Witness ==
    /\ step = "roundtrip" /\ HasNul(text) /\ FirstNul(text) = 2
    /\ Len(text) = 3 /\ text[3] # 0
    /\ decoded = Ok(<<text[1]>>)

\* the units of w before its first zero, all of w when it has none
Content(w) ==
    IF \E i \in 1..Len(w) : w[i] = 0
    THEN SubSeq(w, 1, (CHOOSE k \in 1..Len(w) :
                          w[k] = 0 /\ \A j \in 1..(k - 1) : w[j] # 0) - 1)
    ELSE w

\* c holds a high surrogate not followed by a low one, or a low surrogate not
\* preceded by a high one (which covers a low placed before a high)
BadSurrogate(c) ==
    \E i \in 1..Len(c) :
        \/ IsHighSurrogate(c[i]) /\ (i = Len(c) \/ ~IsLowSurrogate(c[i + 1]))
        \/ IsLowSurrogate(c[i]) /\ (i = 1 \/ ~IsHighSurrogate(c[i - 1]))

IsScalar(c) == c >= 0 /\ c <= 1114111 /\ ~(c >= 55296 /\ c <= 57343)

\* C3: from_wide(w) is a string-conversion error exactly when the content of w
\* has an unpaired or misplaced surrogate; otherwise it is Ok of a valid text
\* whose UTF-16 encoding is that content (the text is not altered)
C3_ErrorIffBadSurrogate ==
    step = "from_wide" =>
        IF BadSurrogate(Content(wide))
        THEN decoded = Err("string_conversion")
        ELSE /\ decoded.ok
             /\ \A i \in 1..Len(decoded.val) : IsScalar(decoded.val[i])
             /\ EncodeUtf16(decoded.val) = Content(wide)

\* a reversed pair is rejected
C3_WitnessErr ==
    /\ step = "from_wide" /\ Len(wide) = 3
    /\ IsLowSurrogate(wide[1]) /\ IsHighSurrogate(wide[2]) /\ wide[3] = 0
    /\ decoded = Err("string_conversion")

\* C4: to_wide(s) is the UTF-16 encoding of each scalar of s in order (one unit
\* for a scalar up to U+FFFF, a high then a low surrogate above), then one zero
Offset(s, i) == Utf16Len(SubSeq(s, 1, i - 1))

C4_ToWideLayout ==
    step = "to_wide" =>
        /\ Len(wide) = Utf16Len(text) + 1
        /\ wide[Len(wide)] = 0
        /\ (text = <<>> => wide = <<0>>)
        /\ \A i \in 1..Len(text) :
              LET o == Offset(text, i)
              IN  IF text[i] <= 65535
                  THEN wide[o + 1] = text[i]
                  ELSE /\ IsHighSurrogate(wide[o + 1])
                       /\ IsLowSurrogate(wide[o + 2])
                       /\ 65536 + (wide[o + 1] - 55296) * 1024
                                + (wide[o + 2] - 56320) = text[i]

C4_Witness ==
    /\ step = "to_wide" /\ text = <<65, 127881, 0>>
    /\ wide = <<65, 55356, 57225, 0, 0>>

----------------------------------------------------------------------------
(* WideString: the small-string optimised container *)

INLINE_CAP == 23

\* the text of String::from("...") in to_string_lossy, as the source holds it
Placeholder == <<212, 248, 937>>

\* [0u16; INLINE_CAP]
ZeroBuf == [i \in 1..INLINE_CAP |-> 0]

Inline(buf, len) == [tag |-> "Inline", buf |-> buf, len |-> len, vec |-> NoVec]
Heap(vec)        == [tag |-> "Heap", buf |-> <<>>, len |-> 0, vec |-> vec]
\* an index out of bounds aborts the constructor
Panicked         == [tag |-> "Panic", buf |-> <<>>, len |-> 0, vec |-> NoVec]

\* for unit in s.encode_utf16() { buf[idx] = unit; idx += 1; }
\* returns the array and idx, or idx = -1 when an index was out of bounds
RECURSIVE InlineWrite(_, _, _)
InlineWrite(buf, idx, units) ==
    IF units = <<>> THEN [buf |-> buf, idx |-> idx]
    ELSE IF idx >= INLINE_CAP THEN [buf |-> buf, idx |-> -1]
    ELSE InlineWrite([buf EXCEPT ![idx + 1] = Head(units)], idx + 1, Tail(units))

\* buf[..n].copy_from_slice(&v)
CopyFromSlice(buf, v) == [i \in 1..INLINE_CAP |-> IF i <= Len(v) THEN v[i] ELSE buf[i]]

\* WideString::new with the inline test off by one (total_len < INLINE_CAP)
WideString_new_StrictInline(s) ==
    LET total_len == Utf16Len(s) + 1
    IN  IF total_len < INLINE_CAP
        THEN Inline(CopyFromSlice(ZeroBuf, EncodeUtf16(s)), total_len % 256)
        ELSE Heap(to_wide(s))

\* WideString::new that counts chars instead of UTF-16 units for total_len
WideString_new_CountChars(s) ==
    LET total_len == Len(s) + 1
    IN  IF total_len <= INLINE_CAP
        THEN LET w == InlineWrite(ZeroBuf, 0, EncodeUtf16(s))
             IN  IF w.idx < 0 \/ w.idx >= INLINE_CAP THEN Panicked
                 ELSE Inline([w.buf EXCEPT ![w.idx + 1] = 0], total_len % 256)
        ELSE Heap(to_wide(s))

\* WideString::new
WideString_new(s) ==
    LET utf16_len == Utf16Len(s)
        total_len == utf16_len + 1
    IN  IF total_len <= INLINE_CAP
        THEN LET w == InlineWrite(ZeroBuf, 0, EncodeUtf16(s))
             IN  IF w.idx < 0 \/ w.idx >= INLINE_CAP THEN Panicked
                 ELSE Inline([w.buf EXCEPT ![w.idx + 1] = 0], total_len % 256)
        ELSE Heap(to_wide(s))

\* WideString::with_capacity
WideString_with_capacity(capacity) ==
    IF capacity <= INLINE_CAP
    THEN Inline(ZeroBuf, 1)
    ELSE Heap(VecWithCapacity(0, capacity))

\* OsStr::encode_wide, collected: a path is a sequence of code points that
\* may hold lone surrogates; each is encoded like a scalar
RECURSIVE EncodeWide(_)
EncodeWide(p) ==
    IF p = <<>> THEN <<>> ELSE EncodeChar(Head(p)) \o EncodeWide(Tail(p))

\* a length of the path in UTF-16 units
OsStrLenInUnits(p) == Len(EncodeWide(p))

\* OsStr::len: the length of the path's WTF-8 bytes
OsStrLen(p) == Utf8Len(p)

\* path_to_wide
path_to_wide(p) ==
    LET result == VecWithCapacity(0, OsStrLen(p) + 1)
    IN  VecPush(VecExtend(result, EncodeWide(p)), 0)

\* WideString::from_vec with the inline test off by one (len < INLINE_CAP)
WideString_from_vec_StrictInline(vec) ==
    IF Len(vec.data) < INLINE_CAP
    THEN Inline(CopyFromSlice(ZeroBuf, vec.data), Len(vec.data) % 256)
    ELSE Heap(vec)

\* WideString::from_vec
WideString_from_vec(vec) ==
    IF Len(vec.data) <= INLINE_CAP
    THEN Inline(CopyFromSlice(ZeroBuf, vec.data), Len(vec.data) % 256)
    ELSE Heap(vec)

\* WideString::from_path
WideString_from_path(p) ==
    LET w == path_to_wide(p)
    IN  IF Len(w.data) <= INLINE_CAP
        THEN Inline(CopyFromSlice(ZeroBuf, w.data), Len(w.data) % 256)
        ELSE Heap(w)

\* n.saturating_sub(1)
SaturatingSub1(n) == IF n >= 1 THEN n - 1 ELSE 0

\* WideString::len that counts the terminator
WideString_len_WithTerminator(w) ==
    IF w.tag = "Inline" THEN w.len ELSE Len(w.vec.data)

\* WideString::len
WideString_len(w) ==
    IF w.tag = "Inline" THEN SaturatingSub1(w.len) ELSE SaturatingSub1(Len(w.vec.data))

\* WideString::is_inline
WideString_is_inline(w) == w.tag = "Inline"

\* as_slice that leaves the terminator out of an inline value
WideString_as_slice_NoTerminator(w) ==
    IF w.tag = "Inline" THEN SubSeq(w.buf, 1, w.len - 1) ELSE w.vec.data

\* WideString::as_slice
WideString_as_slice(w) ==
    IF w.tag = "Inline" THEN SubSeq(w.buf, 1, w.len) ELSE w.vec.data

\* to_string_lossy that returns an empty string when the decode fails
LossyEmptyOnError(slice) == LET r == from_wide(slice) IN IF r.ok THEN r.val ELSE <<>>

\* from_wide(slice).unwrap_or_else(|_| String::from(placeholder)), the body of
\* WideString::to_string_lossy and PooledWideString::to_string_lossy
Lossy(slice) == LET r == from_wide(slice) IN IF r.ok THEN r.val ELSE Placeholder

WideString_to_string_lossy(w) == Lossy(WideString_as_slice(w))

\* Clone for WideString: the array and length are copied, a vector is cloned
\* into an allocation of exactly its length
WideString_clone(w) ==
    IF w.tag = "Inline" THEN Inline(w.buf, w.len)
    ELSE Heap([id |-> 0, cap |-> Len(w.vec.data), data |-> w.vec.data])

----------------------------------------------------------------------------
(* Inputs of the WideString constructors: a run of 'A' long enough to cross *)
(* the inline boundary, followed by a short tail of special values          *)

\* longest run of 'A'
MaxPad == 24
\* longest tail
MaxTail == 2

Pad(n) == [i \in 1..n |-> 65]

\* NUL, the euro sign (one unit), U+1F389 (two units)
TailChars == {0, 8364, 127881}
\* zero, a high surrogate, a low surrogate
TailUnits == {0, 55296, 56320}
\* path code points: a scalar of each width and lone surrogates
TailPoints == {8364, 127881, 55296, 56320}

StrArgs == {Pad(n) \o t : n \in 0..MaxPad, t \in SeqsUpTo(TailChars, MaxTail)}

\* vectors with the terminator and without it
VecArgs == {Pad(n) \o t \o z : n \in 0..MaxPad, t \in SeqsUpTo(TailUnits, MaxTail),
                               z \in {<<>>, <<0>>}}

\* an OsStr never holds a high surrogate directly followed by a low one
WellFormedPath(p) ==
    \A i \in 1..(Len(p) - 1) : ~(IsHighSurrogate(p[i]) /\ IsLowSurrogate(p[i + 1]))

PathArgs == {p \in {Pad(n) \o t : n \in 0..MaxPad, t \in SeqsUpTo(TailPoints, MaxTail)} :
                WellFormedPath(p)}

CapArgs == 0..(MaxPad + 1)

WideArgs ==
    {[kind |-> "str", val |-> s, n |-> 0] : s \in StrArgs}
    \cup {[kind |-> "vec", val |-> v, n |-> 0] : v \in VecArgs}
    \cup {[kind |-> "path", val |-> q, n |-> 0] : q \in PathArgs}
    \cup {[kind |-> "capacity", val |-> <<>>, n |-> c] : c \in CapArgs}

----------------------------------------------------------------------------
(* WideString calls: one constructor, then accessors on the value *)

New ==
    /\ arg.kind = "str" /\ ws = NoWs
    /\ ws' = WideString_new(arg.val)
    /\ UNCHANGED <<arg, out, codecVars, poolVars, extVars>>

WithCapacity ==
    /\ arg.kind = "capacity" /\ ws = NoWs
    /\ ws' = WideString_with_capacity(arg.n)
    /\ UNCHANGED <<arg, out, codecVars, poolVars, extVars>>

FromPath ==
    /\ arg.kind = "path" /\ ws = NoWs
    /\ ws' = WideString_from_path(arg.val)
    /\ UNCHANGED <<arg, out, codecVars, poolVars, extVars>>

\* the caller's vector has exactly the capacity its elements need
FromVec ==
    /\ arg.kind = "vec" /\ ws = NoWs
    /\ ws' = WideString_from_vec([id |-> 0, cap |-> Len(arg.val), data |-> arg.val])
    /\ UNCHANGED <<arg, out, codecVars, poolVars, extVars>>

Built == ws.tag \in {"Inline", "Heap"}

CallLen ==
    /\ Built
    /\ out' = [op |-> "len", val |-> WideString_len(ws)]
    /\ UNCHANGED <<arg, ws, codecVars, poolVars, extVars>>

CallIsInline ==
    /\ Built
    /\ out' = [op |-> "is_inline", val |-> WideString_is_inline(ws)]
    /\ UNCHANGED <<arg, ws, codecVars, poolVars, extVars>>

CallAsSlice ==
    /\ Built
    /\ out' = [op |-> "as_slice", val |-> WideString_as_slice(ws)]
    /\ UNCHANGED <<arg, ws, codecVars, poolVars, extVars>>

CallToStringLossy ==
    /\ Built
    /\ out' = [op |-> "to_string_lossy", val |-> WideString_to_string_lossy(ws)]
    /\ UNCHANGED <<arg, ws, codecVars, poolVars, extVars>>

InitWide ==
    /\ arg \in WideArgs /\ ws = NoWs /\ out = NoOut
    /\ CodecIdle /\ PoolIdle /\ ExtIdle

NextWide ==
    \/ New
    \/ WithCapacity
    \/ FromPath
    \/ FromVec
    \/ CallLen
    \/ CallIsInline
    \/ CallAsSlice
    \/ CallToStringLossy

SpecWide == InitWide /\ [][NextWide]_vars

----------------------------------------------------------------------------
(* Properties of WideString *)

\* C5: WideString::new(s).len() is the number of UTF-16 units of s, and the
\* value is inline exactly when that number plus the terminator is <= 23
C5_LenAndInline ==
    (arg.kind = "str" /\ ws # NoWs) =>
        /\ Built
        /\ (out.op = "len" => out.val = Len(EncodeUtf16(arg.val)))
        /\ (out.op = "is_inline" =>
                (out.val <=> (Len(EncodeUtf16(arg.val)) + 1 <= 23)))

\* 22 content units, the last two a surrogate pair: inline
C5_Witness ==
    /\ arg.kind = "str" /\ Len(EncodeUtf16(arg.val)) = 22
    /\ arg.val[Len(arg.val)] = 127881
    /\ out.op = "is_inline" /\ out.val = TRUE

\* the vector given to from_vec ends with a zero
NulTerminated(v) == v # <<>> /\ v[Len(v)] = 0

\* C6: for a WideString of any public constructor (from_vec: of a
\* null-terminated vector), as_slice() is non-empty and ends with a zero
C6_AlwaysTerminated ==
    (out.op = "as_slice" /\ (arg.kind = "vec" => NulTerminated(arg.val))) =>
        NulTerminated(out.val)

----------------------------------------------------------------------------
(* WideStringPool *)

\* WideStringPool::new
Pool_new == [pool |-> <<>>, max_size |-> 16, max_capacity |-> 4096]

\* WideStringPool::with_limits
Pool_with_limits(ms, mc) == [pool |-> <<>>, max_size |-> ms, max_capacity |-> mc]

\* with_preallocated that pushes one buffer fewer than count
Pool_with_preallocated_OneShort(count, capacity) ==
    LET p == Pool_with_limits(count, IF capacity > 4096 THEN capacity ELSE 4096)
    IN  [p EXCEPT !.pool = [i \in 1..(count - 1) |-> VecWithCapacity(i, capacity)]]

\* WideStringPool::with_preallocated; the buffers are allocations 1..count
Pool_with_preallocated(count, capacity) ==
    LET p == Pool_with_limits(count, IF capacity > 4096 THEN capacity ELSE 4096)
    IN  [p EXCEPT !.pool = [i \in 1..count |-> VecWithCapacity(i, capacity)]]

\* position of the smallest buffer that fits (best fit), 0 for None
BestFitPosition(pl, required) ==
    LET fits == {i \in 1..Len(pl) : pl[i].cap >= required}
    IN  IF fits = {} THEN 0
        ELSE CHOOSE i \in fits :
                \A j \in fits : pl[i].cap < pl[j].cap \/ (pl[i].cap = pl[j].cap /\ i <= j)

\* position of the first buffer strictly larger than required, 0 for None
StrictPosition(pl, required) ==
    LET fits == {i \in 1..Len(pl) : pl[i].cap > required}
    IN  IF fits = {} THEN 0 ELSE CHOOSE i \in fits : \A j \in fits : i <= j

\* position of the first buffer with capacity >= required - 1, 0 for None
LoosePosition(pl, required) ==
    LET fits == {i \in 1..Len(pl) : pl[i].cap >= required - 1}
    IN  IF fits = {} THEN 0 ELSE CHOOSE i \in fits : \A j \in fits : i <= j

\* self.pool.iter().position(|b| b.capacity() >= required), 0 for None
Position(pl, required) ==
    LET fits == {i \in 1..Len(pl) : pl[i].cap >= required}
    IN  IF fits = {} THEN 0 ELSE CHOOSE i \in fits : \A j \in fits : i <= j

\* Vec::remove(idx): the elements after idx shift down
ShiftRemove(pl, idx) ==
    [j \in 1..(Len(pl) - 1) |-> IF j < idx THEN pl[j] ELSE pl[j + 1]]

\* a removal that leaves the list as it was
NoRemove(pl, idx) == pl

\* Vec::swap_remove(idx): the last element takes the place of the removed one
SwapRemove(pl, idx) ==
    [j \in 1..(Len(pl) - 1) |-> IF j = idx THEN pl[Len(pl)] ELSE pl[j]]

\* the test of put with the pool allowed one buffer more than max_size
PutRetainsOffByOne(len, capacity) == len <= max_size /\ capacity <= max_capacity

\* the test of put without the limit on the capacity
PutRetainsAnyCapacity(len, capacity) == len < max_size

\* self.pool.len() < self.max_size && pooled.buffer.capacity() <= self.max_capacity
PutRetains(len, capacity) == len < max_size /\ capacity <= max_capacity

\* allocations owned by the pool or by a handle, or moved out of a handle
UsedIds == {pool[i].id : i \in 1..Len(pool)} \cup {h.id : h \in handles} \cup taken

\* a new allocation: the lowest address not in use
FreshId == CHOOSE i \in 1..(Cardinality(UsedIds) + 1) :
               i \notin UsedIds /\ \A j \in 1..(i - 1) : j \in UsedIds

\* most handles checked out at once
MaxHandles == 2
\* most buffers alive at once: pooled, checked out or moved out of a handle
MaxBuffers == 3
\* largest max_size / count given to with_limits / with_preallocated
MaxPoolSize == 2

\* texts given to get: U+1F389 (required = 3) and "A\0A" (required = 4)
PoolTexts == {<<127881>>, <<65, 0, 65>>}
\* paths given to get_path: a lone high surrogate (3 bytes, 1 unit)
PoolPaths == {<<55296>>}
\* max_capacity given to with_limits
LimitCaps == {3}
\* capacity given to with_preallocated
PreCaps == {3, 5000}

PoolConfigs ==
    {Pool_new}
    \cup {Pool_with_limits(ms, mc) : ms \in 0..MaxPoolSize, mc \in LimitCaps}
    \cup {Pool_with_preallocated(n, c) : n \in 0..MaxPoolSize, c \in PreCaps}

\* the record of a call: its name, its text or path argument, the allocation
\* and capacity of the buffer it took or returned, and whether it allocated
Call(op, a, buf, allocated) ==
    [op |-> op, arg |-> a, id |-> buf.id, cap |-> buf.cap, allocated |-> allocated]

\* WideStringPool::get
Get(s) ==
    LET utf16_len == Utf16Len(s)
        required  == utf16_len + 1
        idx       == Position(pool, required)
        found     == idx > 0
        buffer    == IF found THEN pool[idx] ELSE VecWithCapacity(FreshId, required)
        pooled    == VecPush(VecExtend(VecClear(buffer), EncodeUtf16(s)), 0)
    IN  /\ live
        /\ Cardinality(handles) < MaxHandles
        /\ found \/ Len(pool) + Cardinality(handles) + Cardinality(taken) < MaxBuffers
        /\ pool' = IF found THEN SwapRemove(pool, idx) ELSE pool
        /\ handles' = handles \cup {pooled}
        /\ last' = Call("get", s, pooled, ~found)
        /\ prev' = last.op
        /\ out' = NoOut
        /\ UNCHANGED <<live, max_size, max_capacity, arg, ws, codecVars, extVars>>

\* WideStringPool::get_path
GetPath(p) ==
    LET required == OsStrLen(p) + 1
        idx      == Position(pool, required)
        found    == idx > 0
        buffer   == IF found THEN pool[idx] ELSE VecWithCapacity(FreshId, required)
        pooled   == VecPush(VecExtend(VecClear(buffer), EncodeWide(p)), 0)
    IN  /\ live
        /\ Cardinality(handles) < MaxHandles
        /\ found \/ Len(pool) + Cardinality(handles) + Cardinality(taken) < MaxBuffers
        /\ pool' = IF found THEN SwapRemove(pool, idx) ELSE pool
        /\ handles' = handles \cup {pooled}
        /\ last' = Call("get_path", p, pooled, ~found)
        /\ prev' = last.op
        /\ out' = NoOut
        /\ UNCHANGED <<live, max_size, max_capacity, arg, ws, codecVars, extVars>>

\* WideStringPool::put
Put(h) ==
    /\ live
    /\ h \in handles
    /\ pool' = IF PutRetains(Len(pool), h.cap) THEN Append(pool, VecClear(h)) ELSE pool
    /\ handles' = handles \ {h}
    /\ last' = Call("put", <<>>, h, FALSE)
    /\ prev' = last.op
    /\ out' = NoOut
    /\ UNCHANGED <<live, max_size, max_capacity, arg, ws, codecVars, extVars>>

\* WideStringPool::clear
Clear ==
    /\ live
    /\ pool' = <<>>
    /\ last' = Call("clear", <<>>, NoVec, FALSE)
    /\ prev' = last.op
    /\ out' = NoOut
    /\ UNCHANGED <<live, max_size, max_capacity, handles, arg, ws, codecVars, extVars>>

\* WideStringPool::shrink_to
ShrinkTo(size) ==
    /\ live
    /\ pool' = SubSeq(pool, 1, IF size < Len(pool) THEN size ELSE Len(pool))
    /\ last' = Call("shrink_to", <<>>, NoVec, FALSE)
    /\ prev' = last.op
    /\ out' = NoOut
    /\ UNCHANGED <<live, max_size, max_capacity, handles, arg, ws, codecVars, extVars>>

\* PooledWideString::to_string_lossy
PooledWideString_to_string_lossy(h) == Lossy(h.data)

\* PooledWideString::len
PooledWideString_len(h) == SaturatingSub1(Len(h.data))

\* PooledWideString::as_slice
PooledWideString_as_slice(h) == h.data

HandleToStringLossy(h) ==
    /\ live
    /\ h \in handles
    /\ out' = [op |-> "to_string_lossy", val |-> PooledWideString_to_string_lossy(h)]
    /\ last' = Call("to_string_lossy", <<>>, h, FALSE)
    /\ prev' = last.op
    /\ UNCHANGED <<live, pool, max_size, max_capacity, handles, arg, ws, codecVars, extVars>>

\* PooledWideString::into_vec: the handle is consumed, its buffer goes to the
\* caller
IntoVec(h) ==
    /\ live
    /\ h \in handles
    /\ handles' = handles \ {h}
    /\ taken' = taken \cup {h.id}
    /\ out' = [op |-> "into_vec", val |-> h.data]
    /\ last' = Call("into_vec", <<>>, h, FALSE)
    /\ prev' = last.op
    /\ UNCHANGED <<live, pool, max_size, max_capacity, arg, ws, codecVars,
                   builderVars, quoteVars, ptrVars>>

\* PooledWideString::into_wide_string: the handle is consumed, its buffer goes
\* into WideString::from_vec
IntoWideString(h) ==
    /\ live
    /\ h \in handles
    /\ handles' = handles \ {h}
    /\ taken' = taken \cup {h.id}
    /\ ws' = WideString_from_vec(h)
    /\ out' = NoOut
    /\ last' = Call("into_wide_string", <<>>, h, FALSE)
    /\ prev' = last.op
    /\ UNCHANGED <<live, pool, max_size, max_capacity, arg, codecVars,
                   builderVars, quoteVars, ptrVars>>

InitPool ==
    /\ live = TRUE
    /\ \E c \in PoolConfigs :
          pool = c.pool /\ max_size = c.max_size /\ max_capacity = c.max_capacity
    /\ handles = {} /\ last = NoCall /\ prev = "none"
    /\ CodecIdle /\ WideIdle /\ ExtIdle

NextPool ==
    \/ \E s \in PoolTexts : Get(s)
    \/ \E p \in PoolPaths : GetPath(p)
    \/ \E h \in handles : Put(h)
    \/ Clear
    \/ \E n \in 0..MaxPoolSize : ShrinkTo(n)
    \/ \E h \in handles : HandleToStringLossy(h)

SpecPool == InitPool /\ [][NextPool]_vars

\* texts given to get when handles are converted: runs of 'A' that make a
\* buffer of INLINE_CAP and of INLINE_CAP + 1 units
HandleTexts == {Pad(INLINE_CAP - 1), Pad(INLINE_CAP)}

\* a pool made by with_limits that retains both sizes of buffer
InitHandles ==
    /\ live = TRUE
    /\ \E c \in {Pool_with_limits(MaxPoolSize, INLINE_CAP + 1)} :
          pool = c.pool /\ max_size = c.max_size /\ max_capacity = c.max_capacity
    /\ handles = {} /\ last = NoCall /\ prev = "none"
    /\ CodecIdle /\ WideIdle /\ ExtIdle

NextHandles ==
    \/ \E s \in HandleTexts : Get(s)
    \/ \E h \in handles : Put(h)
    \/ \E h \in handles : IntoVec(h)
    \/ \E h \in handles : IntoWideString(h)

SpecHandles == InitHandles /\ [][NextHandles]_vars

\* WideString values and pooled handles side by side
SpecStrings == (InitWide \/ InitPool) /\ [][NextWide \/ NextPool]_vars

----------------------------------------------------------------------------
(* Properties of to_string_lossy *)

\* s cut before its first U+0000, all of s when it has none
CutAtNul(s) == IF HasNul(s) THEN SubSeq(s, 1, FirstNul(s) - 1) ELSE s

\* the handle the last call was made on
LastHandle == CHOOSE h \in handles : h.id = last.id

\* C7: to_string_lossy() never fails: it is the text of from_wide(as_slice())
\* when that succeeds and the placeholder when it fails, on a WideString and on
\* a pooled handle; for WideString::new(s) it is s cut before its first U+0000
C7_LossyNeverFails ==
    out.op = "to_string_lossy" =>
        LET slice == IF live THEN LastHandle.data ELSE WideString_as_slice(ws)
            r     == from_wide(slice)
        IN  /\ out.val = (IF r.ok THEN r.val ELSE Placeholder)
            /\ (arg.kind = "str" => out.val = CutAtNul(arg.val))

\* a pooled handle of a path that is a lone surrogate gives the placeholder
C7_Witness ==
    /\ live /\ out.op = "to_string_lossy" /\ out.val = Placeholder
    /\ last.op = "to_string_lossy" /\ LastHandle.data = <<55296, 0>>

----------------------------------------------------------------------------
(* Properties of the pool.  A step of the pool is recognised by the call it *)
(* records in last'; pool, handles and last are the state before the call.  *)

PoolIds == {pool[i].id : i \in 1..Len(pool)}

\* the number of UTF-16 units of the text plus the terminator
Required(s) == Len(EncodeUtf16(s)) + 1

\* the step is get(text), made right after a put of a buffer large enough
GetAfterPut == last.op = "put" /\ last'.op = "get" /\ Required(last'.arg) <= last.cap

\* the get took its buffer from the pool
NoAllocation == ~last'.allocated /\ last'.id \in PoolIds

\* C8 as stated: after any put(h), an immediately following get(text) with
\* required <= the capacity of h's buffer allocates nothing
C8_ReuseAfterAnyPut == [][GetAfterPut => NoAllocation]_vars

\* C8 amended: the same, when the put retained h's buffer
C8_ReuseAfterRetainingPut ==
    [][(GetAfterPut /\ last.id \in PoolIds) => NoAllocation]_vars

\* a pool made by new(): get, put, then a get that reuses the only buffer
C8_Witness ==
    /\ max_size = 16 /\ prev = "put" /\ last.op = "get" /\ ~last.allocated
    /\ pool = <<>> /\ Cardinality(handles) = 1

\* C9: put(h) retains the buffer exactly when pool.len() < max_size and its
\* capacity <= max_capacity: then it is appended emptied and pool.len() grows
\* by 1; otherwise the pool's list is unchanged; the handle is gone either way
C9_PutPolicy ==
    [][\A h \in handles :
          (last'.op = "put" /\ last'.id = h.id /\ h \notin handles') =>
              /\ handles' = handles \ {h}
              /\ IF Len(pool) < max_size /\ h.cap <= max_capacity
                 THEN /\ pool' = Append(pool, [id |-> h.id, cap |-> h.cap, data |-> <<>>])
                      /\ Len(pool') = Len(pool) + 1
                 ELSE pool' = pool]_vars

\* a put that was refused because the buffer is larger than max_capacity
C9_Witness ==
    /\ last.op = "put" /\ last.cap > max_capacity /\ last.id \notin PoolIds
    /\ Len(pool) < max_size

\* C10: get(text) takes the lowest-index pooled buffer with capacity >=
\* required, moves the last pooled buffer into its slot and so lowers
\* pool.len() by 1; when none fits it allocates a buffer of capacity required
\* and leaves the pool unchanged
C10_FirstFitSwapRemove ==
    [][last'.op = "get" =>
          LET required == Required(last'.arg)
              fits     == {i \in 1..Len(pool) : pool[i].cap >= required}
          IN  IF fits # {}
              THEN LET i == CHOOSE k \in fits : \A j \in fits : k <= j
                   IN  /\ last'.id = pool[i].id /\ last'.cap = pool[i].cap
                       /\ ~last'.allocated
                       /\ Len(pool') = Len(pool) - 1
                       /\ \A j \in 1..Len(pool') :
                             pool'[j] = IF j = i THEN pool[Len(pool)] ELSE pool[j]
              ELSE /\ last'.allocated
                   /\ last'.cap = required
                   /\ last'.id \notin PoolIds
                   /\ pool' = pool]_vars

\* first fit, not best fit: a smaller buffer that fits was left in the pool
C10_Witness ==
    /\ last.op = "get" /\ ~last.allocated
    /\ \E i \in 1..Len(pool) :
          pool[i].cap >= Required(last.arg) /\ pool[i].cap < last.cap

\* the handle a get or get_path step returns
Returned == CHOOSE h \in handles' : h.id = last'.id

\* C11: the handle returned by get(text) holds exactly to_wide(text), whatever
\* the buffer held before and whatever calls came before: as_slice() is the
\* UTF-16 encoding of text then one zero, len() is the number of UTF-16 units
\* of text, and no unit of an earlier string remains
C11_GetHoldsToWide ==
    [][last'.op = "get" =>
          /\ PooledWideString_as_slice(Returned) = EncodeUtf16(last'.arg) \o <<0>>
          /\ PooledWideString_as_slice(Returned) = to_wide(last'.arg).data
          /\ PooledWideString_len(Returned) = Utf16Len(last'.arg)]_vars

\* a buffer that held the four units of "A\0A" and its zero is reused for U+1F389
C11_Witness ==
    /\ prev = "put" /\ last.op = "get" /\ ~last.allocated /\ last.cap = 4
    /\ last.arg = <<127881>>
    /\ \E h \in handles : h.id = last.id /\ h.data = <<55356, 57225, 0>>

\* C12: the number of buffers held in the pool never exceeds max_size, which is
\* 16 for a pool made by new()
C12_PoolWithinMaxSize ==
    live => /\ Len(pool) <= max_size
            /\ Pool_new.max_size = 16

\* a full pool refused a buffer it had room for by capacity
C12_Witness ==
    /\ last.op = "put" /\ Len(pool) = max_size /\ max_size > 0
    /\ last.id \notin PoolIds /\ last.cap <= max_capacity

----------------------------------------------------------------------------
(* Ownership of the buffers *)

HandleIds == {h.id : h \in handles}

\* each allocation is once in the pool's list, or in one handle, or moved out
OnePlace ==
    /\ \A i, j \in 1..Len(pool) : pool[i].id = pool[j].id => i = j
    /\ \A g, h \in handles : g.id = h.id => g = h
    /\ PoolIds \cap HandleIds = {}
    /\ taken \cap (PoolIds \cup HandleIds) = {}

\* get returns a buffer that no handle holds, and a buffer enters the pool's
\* list only by a put of the handle that holds it
OwnershipStep ==
    /\ last'.op = "get" => (last'.id \notin HandleIds /\ last'.id \in HandleIds')
    /\ \A b \in PoolIds' \ PoolIds :
          last'.op = "put" /\ last'.id = b /\ b \in HandleIds

\* C13: at every point of any sequence of get, put, into_vec and
\* into_wide_string each buffer is in at most one place, once in the pool's
\* list or in exactly one checked-out handle; get never returns a buffer that is
\* checked out, and a buffer re-enters the pool only by a put of its handle
C13_SingleOwner == []OnePlace /\ [][OwnershipStep]_vars

\* two handles out, one buffer pooled again and reused, one moved out
C13_Witness ==
    /\ Cardinality(handles) = 1 /\ Len(pool) = 1 /\ Cardinality(taken) = 1
    /\ last.op = "put"

\* the handle that the into_wide_string step consumes
Converted == CHOOSE h \in handles : h.id = last'.id

\* C20: into_wide_string() yields a WideString whose as_slice(), len() and
\* to_string_lossy() equal the handle's, Inline exactly when the handle's
\* buffer with its terminator has at most 23 units; the pool's list is
\* unchanged by the call and the buffer is never in the pool afterwards
C20_IntoWideString ==
    /\ [][last'.op = "into_wide_string" =>
              /\ WideString_as_slice(ws') = PooledWideString_as_slice(Converted)
              /\ WideString_len(ws') = PooledWideString_len(Converted)
              /\ WideString_to_string_lossy(ws')
                    = PooledWideString_to_string_lossy(Converted)
              /\ WideString_is_inline(ws') <=> (Len(Converted.data) <= 23)
              /\ pool' = pool]_vars
    /\ [](taken \cap PoolIds = {})

\* a handle of 22 units and the terminator became an inline WideString, and
\* the pool went on to hold another buffer
C20_Witness ==
    /\ ws.tag = "Inline" /\ ws.len = 23 /\ taken # {} /\ Len(pool) = 1

----------------------------------------------------------------------------
(* WideStringBuilder *)

\* WideStringBuilder::new: Default, an empty Vec that owns no allocation
WideStringBuilder_new == VecWithCapacity(0, 0)

\* WideStringBuilder::with_capacity
WideStringBuilder_with_capacity(capacity) == VecWithCapacity(0, capacity)

\* WideStringBuilder::push
WideStringBuilder_push(b, s) == VecExtend(b, EncodeUtf16(s))

\* WideStringBuilder::push_char
WideStringBuilder_push_char(b, c) == VecPush(b, c)

\* build that appends no terminator
WideStringBuilder_build_NoTerminator(b) == b

\* WideStringBuilder::build
WideStringBuilder_build(b) == VecPush(b, 0)

\* WideStringBuilder::clear
WideStringBuilder_clear(b) == VecClear(b)

\* a take that copies the value out and leaves it in place
MemTakeKeep(v) == [value |-> v, left |-> v]

\* std::mem::take(&mut v): the value moves out, Vec::default() stays behind
MemTake(v) == [value |-> v, left |-> VecWithCapacity(0, 0)]

\* WideStringBuilder::build_and_clear: the returned vector and the builder's
\* buffer after the call
WideStringBuilder_build_and_clear(b) == MemTake(VecPush(b, 0))

\* WideStringBuilder::len
WideStringBuilder_len(b) == Len(b.data)

\* WideStringBuilder::is_empty
WideStringBuilder_is_empty(b) == b.data = <<>>

\* WideStringBuilder::capacity
WideStringBuilder_capacity(b) == b.cap

\* most segments pushed between two clears
MaxPushes == 3

\* texts given to push: empty, "A", U+0000, U+1F389
BuilderTexts == {<<>>, <<65>>, <<0>>, <<127881>>}
\* units given to push_char: 'A' and a lone high surrogate
BuilderUnits == {65, 55296}
\* capacities given to with_capacity
BuilderCaps == {0, 8}

Segment(kind, val) == [kind |-> kind, val |-> val]

\* the record of a call on the builder: its name, the vector it returned, and
\* capacity() and len() as they were before the call
BuilderCall(op, vec, b) ==
    [op |-> op, vec |-> vec, cap |-> WideStringBuilder_capacity(b),
     len |-> WideStringBuilder_len(b)]

\* a builder exists and build has not consumed it
Alive == produced.op \notin {"none", "build"}

otherVars == <<codecVars, wideVars, poolVars, taken, quoteVars, ptrVars>>

Builder_new ==
    /\ produced.op = "none"
    /\ builder' = WideStringBuilder_new
    /\ pushed' = <<>>
    /\ produced' = BuilderCall("new", NoVec, NoVec)
    /\ UNCHANGED otherVars

Builder_with_capacity(capacity) ==
    /\ produced.op = "none"
    /\ builder' = WideStringBuilder_with_capacity(capacity)
    /\ pushed' = <<>>
    /\ produced' = BuilderCall("with_capacity", NoVec, NoVec)
    /\ UNCHANGED otherVars

Push(s) ==
    /\ Alive
    /\ Len(pushed) < MaxPushes
    /\ builder' = WideStringBuilder_push(builder, s)
    /\ pushed' = Append(pushed, Segment("str", s))
    /\ produced' = BuilderCall("push", NoVec, builder)
    /\ UNCHANGED otherVars

PushChar(c) ==
    /\ Alive
    /\ Len(pushed) < MaxPushes
    /\ builder' = WideStringBuilder_push_char(builder, c)
    /\ pushed' = Append(pushed, Segment("unit", <<c>>))
    /\ produced' = BuilderCall("push_char", NoVec, builder)
    /\ UNCHANGED otherVars

\* build(mut self): the builder is consumed
Build ==
    /\ Alive
    /\ builder' = NoVec
    /\ produced' = BuilderCall("build", WideStringBuilder_build(builder), builder)
    /\ UNCHANGED <<pushed, otherVars>>

Builder_clear ==
    /\ Alive
    /\ builder' = WideStringBuilder_clear(builder)
    /\ pushed' = <<>>
    /\ produced' = BuilderCall("clear", NoVec, builder)
    /\ UNCHANGED otherVars

BuildAndClear ==
    /\ Alive
    /\ builder' = WideStringBuilder_build_and_clear(builder).left
    /\ pushed' = <<>>
    /\ produced' = BuilderCall("build_and_clear",
                          WideStringBuilder_build_and_clear(builder).value, builder)
    /\ UNCHANGED otherVars

InitBuilder ==
    /\ BuilderIdle
    /\ CodecIdle /\ WideIdle /\ PoolIdle
    /\ taken = {} /\ QuoteIdle /\ PtrIdle

NextBuilder ==
    \/ Builder_new
    \/ \E c \in BuilderCaps : Builder_with_capacity(c)
    \/ \E s \in BuilderTexts : Push(s)
    \/ \E c \in BuilderUnits : PushChar(c)
    \/ Build
    \/ Builder_clear
    \/ BuildAndClear

SpecBuilder == InitBuilder /\ [][NextBuilder]_vars

----------------------------------------------------------------------------
(* Properties of the builder *)

\* the UTF-16 units of one segment
SegmentUnits(g) == IF g.kind = "str" THEN EncodeUtf16(g.val) ELSE g.val

\* the number of units the segments stand for: utf16_length of each text, one
\* for each push_char
RECURSIVE SumLen(_)
SumLen(segs) ==
    IF segs = <<>> THEN 0
    ELSE (IF Head(segs).kind = "str" THEN Utf16Len(Head(segs).val) ELSE 1)
         + SumLen(Tail(segs))

\* C14: before build, len() is the sum of utf16_length of every text pushed,
\* plus one per push_char, since creation or the last clear / build_and_clear,
\* with no terminator counted; is_empty() is true exactly when that sum is 0
C14_LenIsSumOfPushes ==
    Alive =>
        /\ WideStringBuilder_len(builder) = SumLen(pushed)
        /\ WideStringBuilder_is_empty(builder) <=> (SumLen(pushed) = 0)

\* in a builder made with capacity 8: U+1F389 (two units) and one push_char
\* make a length of 3
C14_Witness ==
    /\ Alive /\ produced.op = "push_char" /\ builder.cap = 8
    /\ Len(pushed) = 2 /\ pushed[1] = Segment("str", <<127881>>)
    /\ WideStringBuilder_len(builder) = 3

\* the units of the segments in push order
RECURSIVE ConcatUnits(_)
ConcatUnits(segs) ==
    IF segs = <<>> THEN <<>> ELSE SegmentUnits(Head(segs)) \o ConcatUnits(Tail(segs))

\* the texts of the segments in push order
RECURSIVE ConcatText(_)
ConcatText(segs) ==
    IF segs = <<>> THEN <<>> ELSE Head(segs).val \o ConcatText(Tail(segs))

AllText(segs) == \A i \in 1..Len(segs) : segs[i].kind = "str"

\* C15: build() returns the UTF-16 units of the pushed segments in push order
\* followed by exactly one zero, len() + 1 units in all; when the segments are
\* texts, from_wide of it is the concatenated text cut before its first U+0000
C15_BuildConcatenates ==
    produced.op = "build" =>
        /\ produced.vec.data = ConcatUnits(pushed) \o <<0>>
        /\ Len(produced.vec.data) = produced.len + 1
        /\ AllText(pushed) =>
              from_wide(produced.vec.data) = Ok(CutAtNul(ConcatText(pushed)))

\* "A", U+1F389, U+0000 pushed in this order, then build
C15_Witness ==
    /\ produced.op = "build"
    /\ pushed = <<Segment("str", <<65>>), Segment("str", <<127881>>),
                  Segment("str", <<0>>)>>
    /\ produced.vec.data = <<65, 55356, 57225, 0, 0>>
    /\ from_wide(produced.vec.data) = Ok(<<65, 127881>>)

\* C16: after build_and_clear() the builder's capacity() is not smaller than
\* it was before the call
C16_BuildAndClearKeepsCapacity ==
    produced.op = "build_and_clear" =>
        WideStringBuilder_capacity(builder) >= produced.cap

----------------------------------------------------------------------------
(* Command-line quoting (src/src/process.rs) *)

\* the UTF-8 bytes of one scalar
Utf8Bytes(c) ==
    IF c < 128 THEN <<c>>
    ELSE IF c < 2048 THEN <<192 + (c \div 64), 128 + (c % 64)>>
    ELSE IF c < 65536
         THEN <<224 + (c \div 4096), 128 + ((c \div 64) % 64), 128 + (c % 64)>>
    ELSE <<240 + (c \div 262144), 128 + ((c \div 4096) % 64),
           128 + ((c \div 64) % 64), 128 + (c % 64)>>

\* str::bytes
RECURSIVE StrBytes(_)
StrBytes(s) == IF s = <<>> THEN <<>> ELSE Utf8Bytes(Head(s)) \o StrBytes(Tail(s))

\* needs_quoting without the test for a tab
NeedsQuotingNoTab(s) ==
    s = <<>> \/ \E i \in 1..Len(StrBytes(s)) : StrBytes(s)[i] \in {32, 34}

\* arg.is_empty() || arg.bytes().any(|b| b == b' ' || b == b'\t' || b == b'"')
NeedsQuoting(s) ==
    s = <<>> \/ \E i \in 1..Len(StrBytes(s)) : StrBytes(s)[i] \in {32, 9, 34}

\* chars.peek(): the next char, -1 for None
Peek(chars) == IF chars = <<>> THEN -1 ELSE Head(chars)

\* while chars.peek() == Some(&'\\') { chars.next(); backslash_count += 1; }
\* returns the count and the chars left in the iterator
RECURSIVE CountBackslashes(_, _)
CountBackslashes(chars, backslash_count) ==
    IF Peek(chars) = 92
    THEN CountBackslashes(Tail(chars), backslash_count + 1)
    ELSE [count |-> backslash_count, chars |-> chars]

\* the backslashes pushed for a run, doubled only before a double quote
PushedBackslashesNoEnd(backslash_count, peek) ==
    IF peek = 34 THEN backslash_count * 2 ELSE backslash_count

\* the backslashes pushed for a run of backslash_count: doubled when a double
\* quote or nothing follows
PushedBackslashes(backslash_count, peek) ==
    IF peek = 34 \/ peek = -1 THEN backslash_count * 2 ELSE backslash_count

Backslashes(n) == [i \in 1..n |-> 92]

\* while let Some(c) = chars.next() { ... }
RECURSIVE QuoteLoop(_, _)
QuoteLoop(chars, q) ==
    IF chars = <<>> THEN q
    ELSE LET c == Head(chars)
         IN  IF c = 92
             THEN LET run == CountBackslashes(Tail(chars), 1)
                  IN  QuoteLoop(run.chars,
                          q \o Backslashes(PushedBackslashes(run.count, Peek(run.chars))))
             ELSE IF c = 34
             THEN QuoteLoop(Tail(chars), q \o <<92, 34>>)
             ELSE QuoteLoop(Tail(chars), q \o <<c>>)

\* quote_arg: Cow::Owned(quoted) or Cow::Borrowed(arg)
quote_arg(s) ==
    IF NeedsQuoting(s)
    THEN [owned |-> TRUE, val |-> QuoteLoop(s, <<34>>) \o <<34>>, done |-> TRUE]
    ELSE [owned |-> FALSE, val |-> s, done |-> TRUE]

\* longest argument, in chars
MaxArgLen == 4

\* space, tab, double quote, backslash, 'a', U+20AC (bytes E2 82 AC)
QuoteChars == {32, 9, 34, 92, 97, 8364}

QuoteArgs == SeqsUpTo(QuoteChars, MaxArgLen)

\* one call of quote_arg on the argument drawn at start
QuoteArg ==
    /\ ~quoted.done
    /\ quoted' = quote_arg(cmd_arg)
    /\ UNCHANGED <<cmd_arg, codecVars, wideVars, poolVars, taken, builderVars, ptrVars>>

InitQuote ==
    /\ cmd_arg \in QuoteArgs /\ quoted = NoQuoted
    /\ CodecIdle /\ WideIdle /\ PoolIdle
    /\ taken = {} /\ BuilderIdle /\ PtrIdle

NextQuote == QuoteArg

SpecQuote == InitQuote /\ [][NextQuote]_vars

----------------------------------------------------------------------------
(* Properties of quote_arg *)

\* arg is non-empty and has no space, tab or double quote
Plain(s) == s # <<>> /\ \A i \in 1..Len(s) : s[i] \notin {32, 9, 34}

\* C17: quote_arg(arg) is arg unchanged exactly when arg is non-empty and has
\* no space, tab or double quote; otherwise the result begins and ends with a
\* double quote; the result is never empty and quote_arg("") is two double quotes
C17_QuotedIffSpecial ==
    quoted.done =>
        /\ (quoted.val = cmd_arg) <=> Plain(cmd_arg)
        /\ quoted.owned <=> ~Plain(cmd_arg)
        /\ quoted.val # <<>>
        /\ ~Plain(cmd_arg) =>
              (Len(quoted.val) >= 2 /\ Head(quoted.val) = 34
               /\ quoted.val[Len(quoted.val)] = 34)
        /\ cmd_arg = <<>> => quoted.val = <<34, 34>>

\* "a<tab>\" is quoted, "a\" would not be
C17_Witness ==
    /\ quoted.done /\ cmd_arg = <<97, 9, 92>>
    /\ quoted.val = <<34, 97, 9, 92, 92, 34>>

\* the last index of the run of backslashes that holds index i
RunEnd(s, i) == CHOOSE e \in i..Len(s) :
                   /\ \A k \in i..e : s[k] = 92
                   /\ (e = Len(s) \/ s[e + 1] # 92)

\* what the char at index i of arg becomes
Piece(s, i) ==
    IF s[i] = 92
    THEN IF RunEnd(s, i) = Len(s) \/ s[RunEnd(s, i) + 1] = 34
         THEN <<92, 92>> ELSE <<92>>
    ELSE IF s[i] = 34 THEN <<92, 34>>
    ELSE <<s[i]>>

\* arg rewritten left to right
RECURSIVE Rewrite(_, _)
Rewrite(s, i) == IF i > Len(s) THEN <<>> ELSE Piece(s, i) \o Rewrite(s, i + 1)

\* C18: when quote_arg quotes arg, the text between the quotes is arg with
\* every maximal run of n backslashes that a double quote or the end of arg
\* follows turned into 2n backslashes, every other run of backslashes copied,
\* every double quote turned into backslash + double quote, and every other
\* character copied
C18_EscapesRuns ==
    (quoted.done /\ quoted.owned) =>
        SubSeq(quoted.val, 2, Len(quoted.val) - 1) = Rewrite(cmd_arg, 1)

\* the backslash before the quote is doubled, the one before 'a' is not
C18_Witness ==
    /\ quoted.done /\ cmd_arg = <<92, 97, 92, 34>>
    /\ quoted.val = <<34, 92, 97, 92, 92, 92, 34, 34>>

----------------------------------------------------------------------------
(* from_wide_ptr.  The memory is the allocation in wide; a pointer is the   *)
(* index of the unit it points at, 0 for the null pointer.  ptr.add(len) is *)
(* the index ptr + len; an index above Len(wide) is outside the allocation. *)

\* a test that takes no pointer for null
NeverNull(p) == FALSE

\* ptr.is_null()
IsNull(p) == p = 0

\* while *ptr.add(len) != 0 { len += 1; }: the final len, or -1 when the loop
\* reads outside the allocation
RECURSIVE ScanLen(_, _, _)
ScanLen(mem, p, len) ==
    IF p + len < 1 \/ p + len > Len(mem) THEN -1
    ELSE IF mem[p + len] # 0 THEN ScanLen(mem, p, len + 1)
    ELSE len

\* the process stops on an invalid read
Fault == [ok |-> FALSE, val |-> <<>>, err |-> "fault"]

\* what may lie after the allocation, up to a zero
Beyond == {<<>>, <<65>>, <<55296>>}

\* the outcomes of a scan that leaves the allocation: a fault, or the decoding
\* of the units up to a zero found further on
OutOfBounds(mem, p) ==
    IF p < 1 THEN {[result |-> Fault, reads |-> {p}]}
    ELSE {[result |-> Fault, reads |-> p..(Len(mem) + 1)]}
         \cup {[result |-> from_wide(SubSeq(mem, p, Len(mem)) \o j),
                reads |-> p..(Len(mem) + 1 + Len(j))] : j \in Beyond}

\* from_wide_ptr: the possible results, each with the indices read
from_wide_ptr(mem, p) ==
    IF IsNull(p) THEN {[result |-> Err("null_pointer"), reads |-> {}]}
    ELSE LET len == ScanLen(mem, p, 0)
         IN  IF len < 0 THEN OutOfBounds(mem, p)
             ELSE {[result |-> from_wide(SubSeq(mem, p, p + len - 1)),
                    reads |-> p..(p + len)]}

\* unsafe { from_wide_ptr(p) } on the memory mem
FromWidePtr(mem, p) ==
    /\ step = "idle"
    /\ \E o \in from_wide_ptr(mem, p) : decoded' = o.result /\ reads' = o.reads
    /\ wide' = mem
    /\ ptr' = p
    /\ text' = <<>>
    /\ step' = "from_wide_ptr"
    /\ UNCHANGED <<wideVars, poolVars, taken, builderVars, quoteVars>>

NextPtr == \E mem \in WideInputs : \E p \in 0..Len(mem) : FromWidePtr(mem, p)

SpecPtr == InitCodec /\ [][NextPtr]_vars

\* the memory holds a zero at ptr or after it
Terminated == \E k \in ptr..Len(wide) : wide[k] = 0

\* the index of the first zero at ptr or after it
Terminator == CHOOSE k \in ptr..Len(wide) :
                  wide[k] = 0 /\ \A j \in ptr..(k - 1) : wide[j] # 0

\* C19: from_wide_ptr(ptr) with a null ptr returns a null-pointer error and
\* reads no memory; with a non-null ptr to a zero-terminated buffer it returns
\* what from_wide returns for the units before the first zero
C19_FromWidePtr ==
    step = "from_wide_ptr" =>
        /\ ptr = 0 => (decoded = Err("null_pointer") /\ reads = {})
        /\ (ptr # 0 /\ Terminated) =>
              decoded = from_wide(SubSeq(wide, ptr, Terminator - 1))

\* a pointer to the second unit of <<0, 'A', 0>>
C19_Witness ==
    /\ step = "from_wide_ptr" /\ ptr = 2 /\ wide = <<0, 65, 0>>
    /\ decoded = Ok(<<65>>) /\ reads = {2, 3}

----------------------------------------------------------------------------
(* Properties of a pre-populated pool.  No call has been made on the pool   *)
(* while last is NoCall; of the pools drawn at start only those made by     *)
(* with_preallocated have max_capacity >= 4096 and max_size other than 16.  *)

\* the pool is as with_preallocated(count, capacity) left it
FreshPreallocated(count, capacity) ==
    /\ live /\ last = NoCall
    /\ max_size = count /\ max_size # Pool_new.max_size
    /\ max_capacity = (IF capacity > 4096 THEN capacity ELSE 4096)

\* C21: right after with_preallocated(count, capacity) the pool holds exactly
\* count empty buffers of capacity `capacity`; a get with required <= capacity
\* then takes one of them without allocating and leaves count - 1, and putting
\* that handle back brings pool.len() to count again
C21_Preallocated ==
    /\ [](\A count \in 0..(MaxPoolSize + 1) : \A capacity \in PreCaps :
            FreshPreallocated(count, capacity) =>
                /\ Len(pool) = count
                /\ \A i \in 1..count : pool[i].data = <<>> /\ pool[i].cap = capacity)
    /\ [][\A count \in 1..(MaxPoolSize + 1) : \A capacity \in PreCaps :
            (FreshPreallocated(count, capacity) /\ last'.op = "get"
                /\ Required(last'.arg) <= capacity) =>
                (~last'.allocated /\ last'.id \in PoolIds
                 /\ Len(pool') = count - 1)]_vars
    /\ [][(prev = "none" /\ last.op = "get" /\ ~last.allocated
            /\ max_capacity >= 4096 /\ max_size # Pool_new.max_size
            /\ last'.op = "put" /\ last'.id = last.id) =>
                Len(pool') = max_size]_vars

\* with_preallocated(2, 5000): the first get took a buffer, its put restored 2
C21_Witness ==
    /\ last.op = "put" /\ prev = "get" /\ max_size = 2 /\ max_capacity = 5000
    /\ Len(pool) = 2 /\ \A i \in 1..2 : pool[i].cap = 5000
    /\ handles = {}

----------------------------------------------------------------------------
(* More properties of WideString *)

\* C22: WideString::new(s) never panics: on the Inline path the content units
\* and the terminator take at most the 23 slots of the array (the terminator's
\* index is at most 22, also when s ends in a surrogate pair at the boundary,
\* which goes to Heap when it does not fit), and the stored length is the
\* total length, which fits the 8-bit field
C22_NewNeverPanics ==
    (arg.kind = "str" /\ ws # NoWs) =>
        LET units == EncodeUtf16(arg.val)
        IN  /\ ws.tag # "Panic"
            /\ ws.tag \in {"Inline", "Heap"}
            /\ ws.tag = "Inline" =>
                  /\ Len(units) <= 22
                  /\ InlineWrite(ZeroBuf, 0, units).idx = Len(units)
                  /\ ws.buf[Len(units) + 1] = 0
                  /\ ws.len = Len(units) + 1
                  /\ ws.len <= 255
            /\ Len(units) + 1 > 23 => ws.tag = "Heap"

\* 20 units and a surrogate pair fill the array: the terminator is at index 22
C22_Witness ==
    /\ arg.kind = "str" /\ ws.tag = "Inline" /\ ws.len = 23
    /\ IsHighSurrogate(ws.buf[21]) /\ IsLowSurrogate(ws.buf[22]) /\ ws.buf[23] = 0

----------------------------------------------------------------------------
(* The native command-line rule, as the reference quote_arg is read back by *)

\* the number of backslashes of line from index i on
RECURSIVE RunLength(_, _)
RunLength(line, i) ==
    IF i <= Len(line) /\ line[i] = 92 THEN 1 + RunLength(line, i + 1) ELSE 0

\* the arguments of line from index i on; cur is the argument being read,
\* started tells whether it exists, inq whether a quote is open
RECURSIVE ParseFrom(_, _, _, _, _, _)
ParseFrom(line, i, cur, started, inq, args) ==
    IF i > Len(line) THEN (IF started THEN Append(args, cur) ELSE args)
    ELSE IF line[i] = 92
    THEN LET n     == RunLength(line, i)
             after == i + n
         IN  IF after <= Len(line) /\ line[after] = 34
             THEN IF n % 2 = 0
                  THEN ParseFrom(line, after + 1, cur \o Backslashes(n \div 2),
                                 TRUE, ~inq, args)
                  ELSE ParseFrom(line, after + 1,
                                 cur \o Backslashes((n - 1) \div 2) \o <<34>>,
                                 TRUE, inq, args)
             ELSE ParseFrom(line, after, cur \o Backslashes(n), TRUE, inq, args)
    ELSE IF line[i] = 34
    THEN ParseFrom(line, i + 1, cur, TRUE, ~inq, args)
    ELSE IF line[i] \in {32, 9} /\ ~inq
    THEN ParseFrom(line, i + 1, <<>>, FALSE, FALSE,
                   IF started THEN Append(args, cur) ELSE args)
    ELSE ParseFrom(line, i + 1, Append(cur, line[i]), TRUE, inq, args)

ParseArgs(line) == ParseFrom(line, 1, <<>>, FALSE, FALSE, <<>>)

\* C23: parsing quote_arg(arg) by the native rule (space or tab outside quotes
\* ends an argument; 2n backslashes before a double quote give n backslashes
\* and the quote toggles quoting; 2n+1 give n backslashes and a literal quote;
\* other backslashes are literal) yields exactly one argument, equal to arg
C23_ParsesBackToArg ==
    quoted.done => ParseArgs(quoted.val) = <<cmd_arg>>

\* backslash, quote, space, backslash: every rule is used on the way back
C23_Witness ==
    /\ quoted.done /\ cmd_arg = <<92, 34, 32, 92>>
    /\ quoted.val = <<34, 92, 92, 92, 34, 32, 92, 92, 34>>
    /\ ParseArgs(quoted.val) = <<(<<92, 34, 32, 92>>)>>

----------------------------------------------------------------------------
(* More properties of the pool *)

\* C24: after any sequence of get, put, clear and shrink_to the pool's list
\* of buffers is sorted by capacity, smallest first
C24_SortedByCapacity ==
    live => \A i \in 1..(Len(pool) - 1) : pool[i].cap <= pool[i + 1].cap

----------------------------------------------------------------------------
(* More properties of the builder *)

\* C25: build_and_clear() returns the units accumulated so far followed by
\* exactly one zero and leaves len() = 0 and is_empty() true; every build() or
\* build_and_clear() returns only the units pushed after the previous
\* build_and_clear() or clear(), with nothing carried over from before
C25_CyclesAreIndependent ==
    [][/\ produced'.op = "build_and_clear" =>
              /\ produced'.vec.data = ConcatUnits(pushed) \o <<0>>
              /\ WideStringBuilder_len(builder') = 0
              /\ WideStringBuilder_is_empty(builder')
       /\ produced'.op = "build" =>
              produced'.vec.data = ConcatUnits(pushed) \o <<0>>]_vars

\* a second build_and_clear, right after a first one and one push_char
C25_Witness ==
    /\ produced.op = "build_and_clear" /\ produced.cap = 4 /\ produced.len = 1
    /\ produced.vec.data = <<55296, 0>>
    /\ builder.data = <<>> /\ pushed = <<>>

\* C26: no buffer held in the pool has a capacity above max_capacity, and a
\* handle whose buffer is larger than max_capacity is never retained by put
C26_PoolWithinMaxCapacity ==
    /\ [](live => \A i \in 1..Len(pool) : pool[i].cap <= max_capacity)
    /\ [][\A h \in handles :
            (last'.op = "put" /\ last'.id = h.id /\ h.cap > max_capacity) =>
                (pool' = pool /\ h.id \notin PoolIds')]_vars

\* with_limits(2, 3): the buffer of capacity 3 was retained, the one of
\* capacity 4 was dropped although the pool had room
C26_Witness ==
    /\ last.op = "put" /\ last.cap = 4 /\ max_capacity = 3 /\ max_size = 2
    /\ Len(pool) = 1 /\ pool[1].cap = 3 /\ handles = {}

\* the capacity of the buffer of allocation id in the list pl or the handles hs
CapacityOf(pl, hs, id) ==
    IF \E i \in 1..Len(pl) : pl[i].id = id
    THEN pl[CHOOSE i \in 1..Len(pl) : pl[i].id = id].cap
    ELSE (CHOOSE h \in hs : h.id = id).cap

\* C27: get and get_path never grow or shrink a buffer they reuse: what they
\* write, units and terminator, fits the capacity the buffer had in the pool,
\* the returned handle has that capacity, and the capacity of a buffer is the
\* same from its allocation through every get / put cycle
C27_CapacityIsConstant ==
    /\ [][(last'.op \in {"get", "get_path"} /\ ~last'.allocated) =>
            /\ last'.id \in PoolIds
            /\ Returned.cap = CapacityOf(pool, handles, last'.id)
            /\ Len(Returned.data) <= CapacityOf(pool, handles, last'.id)]_vars
    /\ [][\A id \in (PoolIds \cup HandleIds) \cap (PoolIds' \cup HandleIds') :
            CapacityOf(pool', handles', id) = CapacityOf(pool, handles, id)]_vars
    /\ [](\A h \in handles : Len(h.data) <= h.cap)

\* get_path reused a pre-allocated buffer of capacity 5000 for two units
C27_Witness ==
    /\ last.op = "get_path" /\ ~last.allocated /\ last.cap = 5000
    /\ \E h \in handles : h.id = last.id /\ h.cap = 5000 /\ h.data = <<55296, 0>>

\* the number of UTF-16 units of the path plus the terminator
RequiredUnits(p) == Len(EncodeWide(p)) + 1

\* the number of bytes one code point takes in the OS string
PointBytes(c) == IF c < 128 THEN 1 ELSE IF c < 2048 THEN 2 ELSE IF c < 65536 THEN 3 ELSE 4

RECURSIVE PathBytes(_)
PathBytes(p) == IF p = <<>> THEN 0 ELSE PointBytes(Head(p)) + PathBytes(Tail(p))

\* the step is get_path(path) and follows the first-fit rule of get for the
\* required length r
GetPathFirstFit(r) ==
    last'.op = "get_path" =>
        LET fits == {i \in 1..Len(pool) : pool[i].cap >= r}
        IN  IF fits # {}
            THEN LET i == CHOOSE k \in fits : \A j \in fits : k <= j
                 IN  /\ last'.id = pool[i].id /\ last'.cap = pool[i].cap
                     /\ ~last'.allocated
                     /\ Len(pool') = Len(pool) - 1
            ELSE /\ last'.allocated
                 /\ last'.cap = r
                 /\ pool' = pool

\* C28 as stated: get_path(path) is first fit with required = the number of
\* UTF-16 units of the path + 1
C28_GetPathByUnits == [][GetPathFirstFit(RequiredUnits(last'.arg))]_vars

\* C28 amended: get_path(path) is first fit with required = the byte length of
\* the path's OS string + 1, which is at least the number of units + 1
C28_GetPathByBytes ==
    [][/\ GetPathFirstFit(PathBytes(last'.arg) + 1)
       /\ last'.op = "get_path" =>
              PathBytes(last'.arg) + 1 >= RequiredUnits(last'.arg)]_vars

\* a path of one unit and three bytes: a pooled buffer of capacity 3 was
\* passed over and a buffer of capacity 4 allocated
C28_Witness ==
    /\ last.op = "get_path" /\ last.allocated /\ last.cap = 4
    /\ RequiredUnits(last.arg) = 2
    /\ \E i \in 1..Len(pool) : pool[i].cap = 3

----------------------------------------------------------------------------
(* The two representations of WideString side by side *)

\* WideString::from_vec(to_wide(s)) on the text drawn at start
FromVecOfToWide ==
    /\ arg.kind = "str" /\ ws = NoWs
    /\ ws' = WideString_from_vec(to_wide(arg.val))
    /\ UNCHANGED <<arg, out, codecVars, poolVars, extVars>>

\* let ws = ws.clone()
Clone ==
    /\ Built
    /\ ws' = WideString_clone(ws)
    /\ out' = [op |-> "clone", val |-> 0]
    /\ UNCHANGED <<arg, codecVars, poolVars, extVars>>

NextVariants ==
    \/ NextWide
    \/ FromVecOfToWide
    \/ Clone

SpecVariants == InitWide /\ [][NextVariants]_vars

\* as_slice(), len(), is_inline() and to_string_lossy() of a and b agree
SameObservations(a, b) ==
    /\ WideString_as_slice(a) = WideString_as_slice(b)
    /\ WideString_len(a) = WideString_len(b)
    /\ WideString_is_inline(a) = WideString_is_inline(b)
    /\ WideString_to_string_lossy(a) = WideString_to_string_lossy(b)

\* C29: for every text s, WideString::new(s).as_slice() is to_wide(s) unit for
\* unit in either variant; WideString::from_vec(to_wide(s)) has the same
\* as_slice(), len(), is_inline() and to_string_lossy() as WideString::new(s);
\* clone() preserves all four
C29_VariantsAgree ==
    /\ []((arg.kind = "str" /\ Built) =>
            /\ WideString_as_slice(ws) = to_wide(arg.val).data
            /\ WideString_as_slice(WideString_new(arg.val)) = to_wide(arg.val).data
            /\ SameObservations(ws, WideString_new(arg.val))
            /\ SameObservations(WideString_from_vec(to_wide(arg.val)),
                                WideString_new(arg.val)))
    /\ [][out'.op = "clone" => SameObservations(ws', ws)]_vars

\* the clone of a heap value made from 23 units that end in a surrogate pair:
\* its vector is smaller than the one to_wide allocated
C29_Witness ==
    /\ arg.kind = "str" /\ out.op = "clone" /\ ws.tag = "Heap"
    /\ Len(ws.vec.data) = 24 /\ IsLowSurrogate(ws.vec.data[23])
    /\ ws.vec.cap = 24 /\ to_wide(arg.val).cap > 24

----------------------------------------------------------------------------
(* More properties of the codec *)

\* C30: from_wide needs no terminator and ignores what follows one: for a
\* slice w without a zero, from_wide(w) and from_wide(w followed by a zero)
\* give the same outcome; for a slice whose first zero is at position p,
\* from_wide of it is from_wide of its first p units, also when the units
\* after p are not valid UTF-16
C30_TerminatorOptional ==
    step = "from_wide" =>
        /\ ~HasNul(wide) => decoded = from_wide(wide \o <<0>>)
        /\ HasNul(wide) =>
              /\ decoded = from_wide(SubSeq(wide, 1, FirstNul(wide) - 1))
              /\ decoded = from_wide(SubSeq(wide, 1, FirstNul(wide)))

\* a lone low surrogate after the zero is not looked at
C30_Witness ==
    /\ step = "from_wide" /\ wide = <<65, 0, 56320>>
    /\ decoded = Ok(<<65>>)

====
